---- MODULE Spec2Model ----
(***************************************************************************)
(* Model of the liqo resource reflection engine, built around              *)
(* NamespacedIngressReflector.Handle                                       *)
(* (pkg/virtualKubelet/reflection/exposition/ingress.go).                  *)
(*                                                                         *)
(* The local and the remote cluster are object stores read through the     *)
(* informer caches (listers); the remote store is written through the      *)
(* typed client (Apply, Delete).  Handle is split at its blocking calls:   *)
(* the two lister reads (HandleGet) and the remote request (HandleEnforce),*)
(* so that other actors can act in between.  The work queue, the worker    *)
(* loop, the forge package and DeleteRemote are not part of the sources at *)
(* hand and follow the written specification of the engine.                *)
(***************************************************************************)
EXTENDS FiniteSets, Integers, Sequences, TLC

VARIABLES
    local,       \* local store:  name -> local object (namespace LocalNamespace)
    remote,      \* remote store: namespace -> name -> remote object
    nextUid,     \* next UID the remote API server hands out
    budget,      \* how many external mutations may still happen
    queue,       \* work queue: keys waiting for a worker, in order
    dirty,       \* work queue: keys that need (re)processing
    processing,  \* work queue: keys a worker currently holds
    retries,     \* work queue: key -> number of requeues after failures
    pc,          \* worker -> "idle" | "read" | "enforce" | "ret" | "panicked"
    item,        \* worker -> key being handled
    lget, lerr,  \* worker -> result of localIngresses.Get(name)
    rget, rerr,  \* worker -> result of remoteIngresses.Get(name)
    req,         \* worker -> request Handle issued to the remote API server
    eff,         \* worker -> how the remote API server answered that request
    ret,         \* worker -> what Handle returned
    clean,       \* worker -> no external mutation of its key since HandleGet
    stable,      \* key -> Handle invocations (0, 1, 2 or more) that succeeded in a row
                 \*        with no external mutation of the key since the first began
    reflectors,  \* manager: kind -> mapping -> number of Namespaced Reflectors
    resolved,    \* manager: mapping -> its remote namespace is resolved
    queues,      \* manager: kind -> work queue of the kind's Reflector
    last,        \* manager: the operation carried out last, and its outcome
    foreign,     \* discovery: cluster ID -> stored ForeignCluster
    secrets,     \* discovery: cluster IDs whose CA-data secret exists
    advs,        \* discovery: cluster IDs whose Advertisement exists
    rounds,      \* discovery: operations of the controller that may still run
    dlast,       \* discovery: the operation carried out last, its calls and result
    clusters,    \* liqoctl add: object name -> stored ForeignCluster
    tokens,      \* liqoctl add: cluster IDs whose authentication token is stored
    alast        \* liqoctl add: the command carried out last and its result

reflectionVars == <<local, remote, nextUid, budget, queue, dirty, processing, retries,
                    pc, item, lget, lerr, rget, rerr, req, eff, ret, clean, stable>>

managerVars == <<reflectors, resolved, queues, last>>

discoveryVars == <<foreign, secrets, advs, rounds, dlast>>

addVars == <<clusters, tokens, alast>>

vars == <<reflectionVars, managerVars, discoveryVars, addVars>>

storeVars  == <<local, remote, nextUid, budget>>
queueVars  == <<queue, dirty, processing, retries>>
workerVars == <<pc, item, lget, lerr, rget, rerr, req, eff, ret, clean>>

----------------------------------------------------------------------------
(* Bounds of the model *)

MaxUid     == 3   \* UIDs the remote API server can hand out
MaxEnv     == 2   \* external mutations (users, other controllers)
MaxRetries == 1   \* requeues of a key after transient failures
MaxRounds  == 4   \* operations of the discovery controller
MaxFaults  == 1   \* API calls that fail within one operation

Names   == {"a", "b"}
Values  == {"v1", "v2"}
Workers == {"w1", "w2"}

LocalNamespace   == "ns-local"
RemoteNamespace  == "ns-remote"
RemoteNamespaces == {"ns-remote", "ns-other"}

\* ingress.go:38  the name of the Ingress reflector
IngressReflectorName == "Ingress"

\* the registered kinds, in the order the manager walks them
ReflectorKinds == <<IngressReflectorName, "Other">>
Kinds == {ReflectorKinds[i] : i \in 1..Len(ReflectorKinds)}
KindIndex(kind) == CHOOSE i \in 1..Len(ReflectorKinds) : ReflectorKinds[i] = kind

\* the namespace mappings the peering layer may start and stop
Mapping(l, r) == [local |-> l, remote |-> r]
Mappings  == {Mapping(LocalNamespace, RemoteNamespace), Mapping("ns-local-2", "ns-other")}
NoMapping == Mapping("-", "-")
MappingOf(ns) == CHOOSE m \in Mappings : ns \in {m.local, m.remote}
MappedNamespaces == UNION {{m.local, m.remote} : m \in Mappings}
ManagerNames == {"a"}

----------------------------------------------------------------------------
(* Objects *)

NoLocal  == [present |-> FALSE, spec |-> "-"]
NoRemote == [uid |-> 0, reflected |-> FALSE, spec |-> "-"]
NoReq    == [op |-> "none", ns |-> "-", uid |-> 0, reflected |-> FALSE, spec |-> "-"]

LocalObj(v)        == [present |-> TRUE, spec |-> v]
RemoteObj(u, m, v) == [uid |-> u, reflected |-> m, spec |-> v]

\* generic.NamespacedKeyer(opts.LocalNamespace): local and remote events of
\* an object named n both map to the key (LocalNamespace, n).
NamespacedKeyer(ns, n) == <<ns, n>>
Key(n)   == NamespacedKeyer(LocalNamespace, n)
Keys     == {NamespacedKeyer(ns, n) : ns \in {LocalNamespace, RemoteNamespace}, n \in Names}
NameOf(k) == k[2]

----------------------------------------------------------------------------
(* Pure parts of Handle *)

\* client.IgnoreNotFound
IgnoreNotFound_Identity(e) == e
IgnoreNotFound(e) == IF e = "NotFound" THEN "nil" ELSE e

\* utilruntime.Must: panics on a non-nil error
Must(e) == e # "nil"

\* forge.IsReflected: the ownership marker is the sole authority
IsReflected(r) == r.reflected

\* ingress.go:84  rerr == nil && !forge.IsReflected(remote)
IsUnmanaged_Never(r, re) == FALSE
IsUnmanaged(r, re) == re = "nil" /\ ~IsReflected(r)

\* ingress.go:91  kerrors.IsNotFound(lerr)
LocalVanished(le) == le = "NotFound"

\* ingress.go:93  !kerrors.IsNotFound(rerr)
RemoteExists_Never(re)  == FALSE
RemoteExists_Always(re) == TRUE
RemoteExists(re) == re # "NotFound"

\* ingress.go:95  remote.GetUID(), the precondition of the delete
DeletePrecondition_None(r) == 0
DeletePrecondition(r) == r.uid

\* forge.RemoteIngress: strips local-only metadata, rewrites the namespace,
\* injects the ownership marker, copies the spec
RemoteIngress(l, ns) == [ns |-> ns, reflected |-> TRUE, spec |-> l.spec]

\* ingress.go:103  mutation := forge.RemoteIngress(local, nir.RemoteNamespace())
Mutation_OtherNamespace(l) == RemoteIngress(l, "ns-other")
Mutation_Raw(l) == [ns |-> RemoteNamespace, reflected |-> FALSE, spec |-> l.spec]
Mutation(l) == RemoteIngress(l, RemoteNamespace)

\* ingress.go:84-107  which way Handle goes after the two reads
Branch_Replace(l, le, r, re) ==
    IF IsUnmanaged(r, re) THEN "skip"
    ELSE IF LocalVanished(le) THEN (IF RemoteExists(re) THEN "delete" ELSE "vanished")
    ELSE IF re = "nil" /\ r.spec # l.spec THEN "delete"
    ELSE "apply"
Branch_SkipEqual(l, le, r, re) ==
    IF IsUnmanaged(r, re) THEN "skip"
    ELSE IF LocalVanished(le) THEN (IF RemoteExists(re) THEN "delete" ELSE "vanished")
    ELSE IF re = "nil" /\ r.spec = l.spec THEN "skip"
    ELSE "apply"
Branch_CreateOnly(l, le, r, re) ==
    IF IsUnmanaged(r, re) THEN "skip"
    ELSE IF LocalVanished(le) THEN (IF RemoteExists(re) THEN "delete" ELSE "vanished")
    ELSE IF re = "nil" THEN "skip"
    ELSE "apply"
Branch(l, le, r, re) ==
    IF IsUnmanaged(r, re) THEN "skip"
    ELSE IF LocalVanished(le) THEN (IF RemoteExists(re) THEN "delete" ELSE "vanished")
    ELSE "apply"

----------------------------------------------------------------------------
(* The remote API server *)

\* remoteIngressesClient.Apply(ctx, mutation, forge.ApplyOptions()): server
\* side apply, forced; creates the object or merges the applied fields
ApplyOutcome(cur, m, u) ==
    IF cur.uid = 0 THEN RemoteObj(u, m.reflected, m.spec)
    ELSE [cur EXCEPT !.reflected = m.reflected, !.spec = m.spec]

\* the answer of the API server to that Apply; an apply that changes nothing
\* is not a write
ApplyResponse(cur, m, fault) ==
    IF fault # "none" THEN fault
    ELSE IF cur.uid = 0 THEN "created"
    ELSE IF ApplyOutcome(cur, m, 0) = cur THEN "unchanged"
    ELSE "updated"

\* ingress.go:107-113  Handle returns the error of Apply, if any: an
\* unavailable or conflicting API server is a transient failure, a rejected
\* (invalid) object a fatal one
ApplyReturn_Swallow(resp) == "nil"
ApplyReturn(resp) ==
    IF resp = "error" THEN "transient"
    ELSE IF resp = "invalid" THEN "fatal"
    ELSE "nil"

\* Delete(kind, namespace, name, expectedUID): the API server deletes the
\* object only if its live UID is the expected one (0: no precondition)
DeleteResponse(cur, u, fault) ==
    IF fault # "none" THEN fault
    ELSE IF cur.uid = 0 THEN "notfound"
    ELSE IF u # 0 /\ cur.uid # u THEN "conflict"
    ELSE "deleted"

\* generic DeleteRemote: an object that is already gone, or that is another
\* object by now (UID mismatch), counts as converged and is no error
DeleteRemote(resp) ==
    IF resp \in {"deleted", "notfound", "conflict"} THEN "nil" ELSE "transient"

----------------------------------------------------------------------------
(* The work queue *)

\* Add(k): a key already marked dirty is not added again; a key being
\* processed is only marked dirty and is queued again by Done
QueueAdd_NoDedup(k) ==
    /\ dirty' = dirty \cup {k}
    /\ queue' = IF k \in processing THEN queue ELSE Append(queue, k)
QueueAdd_EvenIfProcessing(k) ==
    /\ dirty' = dirty \cup {k}
    /\ queue' = IF k \in dirty THEN queue ELSE Append(queue, k)
QueueAdd(k) ==
    /\ dirty' = dirty \cup {k}
    /\ queue' = IF k \in dirty \/ k \in processing THEN queue ELSE Append(queue, k)

\* worker loop: a transient failure is retried until the key has been
\* requeued MaxRetries times; a success or a fatal failure never is
ShouldRequeue(r, tries) == r = "transient" /\ tries < MaxRetries

\* ingress.go:60-61  the informers a handler is registered with
Sides == {"local", "remote"}
Handlers_LocalOnly == {"local"}
Handlers == {"local", "remote"}

\* ingress.go:60-61  both handlers are built with
\* generic.NamespacedKeyer(opts.LocalNamespace): whichever informer reports
\* object n, the key is (local namespace, n)
EventKey_OwnNamespace(side, n) ==
    NamespacedKeyer(IF side = "local" THEN LocalNamespace ELSE RemoteNamespace, n)
EventKey(side, n) == NamespacedKeyer(LocalNamespace, n)

\* a change of object n that the informer of one side reports: its handler
\* enqueues the key
Notify(side, n) ==
    /\ IF side \in Handlers
       THEN QueueAdd(EventKey(side, n))
       ELSE UNCHANGED <<queue, dirty>>
    /\ UNCHANGED <<processing, retries>>

Disturb(n) ==
    /\ stable' = [stable EXCEPT ![Key(n)] = 0]
    /\ clean' = [w \in Workers |->
                   IF pc[w] # "idle" /\ item[w] = Key(n) THEN FALSE ELSE clean[w]]

----------------------------------------------------------------------------
ReflectionInit ==
    /\ local = [n \in Names |-> NoLocal]
    /\ remote = [ns \in RemoteNamespaces |-> [n \in Names |->
                    IF ns # RemoteNamespace /\ n = "a"
                    THEN RemoteObj(MaxUid + 1, FALSE, "v1") ELSE NoRemote]]
    /\ nextUid = 1
    /\ budget = MaxEnv
    /\ queue = <<>>
    /\ dirty = {}
    /\ processing = {}
    /\ retries = [k \in Keys |-> 0]
    /\ pc = [w \in Workers |-> "idle"]
    /\ item = [w \in Workers |-> Key("a")]
    /\ lget = [w \in Workers |-> NoLocal]
    /\ lerr = [w \in Workers |-> "nil"]
    /\ rget = [w \in Workers |-> NoRemote]
    /\ rerr = [w \in Workers |-> "nil"]
    /\ req = [w \in Workers |-> NoReq]
    /\ eff = [w \in Workers |-> "none"]
    /\ ret = [w \in Workers |-> "none"]
    /\ clean = [w \in Workers |-> FALSE]
    /\ stable = [k \in Keys |-> 0]

----------------------------------------------------------------------------
(* Discovery: ForeignClusters, the data discovered on the network *)

\* part_001:30  discovery.ClusterId.GetClusterID(), and the other clusters
LocalClusterID == "local"
ForeignIDs == {"c1", "c2"}
ClusterIDs == ForeignIDs \cup {LocalClusterID}

\* part_001:82  the order of the items of a ForeignClusterList
ListOrder == <<"c1", "c2", "local">>

\* part_001:153  fc.Status.Ttl = 3, the default TTL
DefaultTtl == 3

\* part_001:25-27  v1alpha1.LanDiscovery / v1alpha1.WanDiscovery
LanDiscovery == "LAN"
WanDiscovery == "WAN"

ApiUrls == {"u1", "u2"}
ClusterNamespaces == {"n1", "n2"}

\* TxtData: what a cluster answers to a discovery
TxtData(id, url, ns) == [id |-> id, url |-> url, ns |-> ns]

\* a stored ForeignCluster; caRef / adv: Status.Outgoing.CaDataRef and
\* Status.Outgoing.Advertisement are set
NoForeign == [exists |-> FALSE, type |-> "-", ttl |-> 0, url |-> "-", ns |-> "-",
              caRef |-> FALSE, adv |-> FALSE]

\* the record of an operation of the discovery controller
NoDiscovery == [op |-> "none", data |-> <<>>, type |-> "-", faults |-> {},
                calls |-> <<>>, returned |-> <<>>, err |-> FALSE]

DiscoveryInit ==
    /\ foreign = [id \in ClusterIDs |-> NoForeign]
    /\ secrets = {}
    /\ advs = {}
    /\ rounds = MaxRounds
    /\ dlast = NoDiscovery

----------------------------------------------------------------------------
(* liqoctl add: ForeignClusters by object name *)

\* object names of ForeignClusters, and the authentication URLs given
AddNames == {"na", "nb"}
AuthUrls == {"a1", "a2"}

\* handler.go:39-45  ClusterArgs (the token and the namespace are passed on
\* to the secret only)
ClusterArgs(id, name, url) == [id |-> id, name |-> name, url |-> url]

\* no ForeignCluster of a name; label: the cluster ID label, "-" when the
\* object has none; "" and "nil": a field that is not set
NoCluster == [exists |-> FALSE, label |-> "-", id |-> "", name |-> "", url |-> "",
              outgoing |-> "", incoming |-> "", insecure |-> "nil"]

\* the record of a run of the add command
NoAdd == [op |-> "none", args |-> ClusterArgs("-", "-", "-"), faults |-> {},
          merge |-> FALSE, calls |-> <<>>, err |-> FALSE]

AddInit ==
    /\ clusters = [n \in AddNames |-> NoCluster]
    /\ tokens = {}
    /\ alast = NoAdd

ToolsInit == DiscoveryInit /\ AddInit

\* the record of an operation of the manager
NoOp == [op |-> "none", kind |-> "-", mapping |-> NoMapping, failed |-> {},
         had |-> {}, key |-> <<"-", "-">>, outcome |-> "-", ret |-> "-"]

\* the Ingress reflector of the mapping (LocalNamespace, RemoteNamespace) is
\* started and its remote namespace resolved
Init ==
    /\ ReflectionInit
    /\ ToolsInit
    /\ reflectors = [k \in Kinds |-> [m \in Mappings |->
                       IF k = IngressReflectorName
                          /\ m = Mapping(LocalNamespace, RemoteNamespace)
                       THEN 1 ELSE 0]]
    /\ resolved = [m \in Mappings |-> m = Mapping(LocalNamespace, RemoteNamespace)]
    /\ queues = [k \in Kinds |-> <<>>]
    /\ last = NoOp

----------------------------------------------------------------------------
\* utilruntime.Must panicked in a worker: the process is gone
Crashed == \E w \in Workers : pc[w] = "panicked"

----------------------------------------------------------------------------
(* External actors *)

External(side, n) ==
    /\ ~Crashed
    /\ budget > 0
    /\ budget' = budget - 1
    /\ Notify(side, n)
    /\ Disturb(n)
    /\ UNCHANGED <<pc, item, lget, lerr, rget, rerr, req, eff, ret>>
    /\ UNCHANGED <<managerVars, discoveryVars, addVars>>

LocalCreate(n, v) ==
    /\ ~local[n].present
    /\ local' = [local EXCEPT ![n] = LocalObj(v)]
    /\ External("local", n)
    /\ UNCHANGED <<remote, nextUid>>

LocalUpdate(n, v) ==
    /\ local[n].present
    /\ local[n].spec # v
    /\ local' = [local EXCEPT ![n] = LocalObj(v)]
    /\ External("local", n)
    /\ UNCHANGED <<remote, nextUid>>

LocalDelete(n) ==
    /\ local[n].present
    /\ local' = [local EXCEPT ![n] = NoLocal]
    /\ External("local", n)
    /\ UNCHANGED <<remote, nextUid>>

RemoteCreate(n, m, v) ==
    /\ remote[RemoteNamespace][n].uid = 0
    /\ nextUid <= MaxUid
    /\ remote' = [remote EXCEPT ![RemoteNamespace][n] = RemoteObj(nextUid, m, v)]
    /\ nextUid' = nextUid + 1
    /\ External("remote", n)
    /\ UNCHANGED local

RemoteUpdate(n, v) ==
    /\ remote[RemoteNamespace][n].uid # 0
    /\ remote[RemoteNamespace][n].spec # v
    /\ remote' = [remote EXCEPT ![RemoteNamespace][n].spec = v]
    /\ External("remote", n)
    /\ UNCHANGED <<local, nextUid>>

\* another actor deletes the object and creates one of the same name anew
RemoteRecreate(n, m, v) ==
    /\ remote[RemoteNamespace][n].uid # 0
    /\ nextUid <= MaxUid
    /\ remote' = [remote EXCEPT ![RemoteNamespace][n] = RemoteObj(nextUid, m, v)]
    /\ nextUid' = nextUid + 1
    /\ External("remote", n)
    /\ UNCHANGED local

RemoteDelete(n) ==
    /\ remote[RemoteNamespace][n].uid # 0
    /\ remote' = [remote EXCEPT ![RemoteNamespace][n] = NoRemote]
    /\ External("remote", n)
    /\ UNCHANGED <<local, nextUid>>

----------------------------------------------------------------------------
(* Workers *)

\* worker loop: Get() takes the first queued key
Get(w) ==
    /\ ~Crashed
    /\ pc[w] = "idle"
    /\ queue # <<>>
    /\ queue' = Tail(queue)
    /\ dirty' = dirty \ {Head(queue)}
    /\ processing' = processing \cup {Head(queue)}
    /\ item' = [item EXCEPT ![w] = Head(queue)]
    /\ pc' = [pc EXCEPT ![w] = "read"]
    /\ UNCHANGED <<storeVars, retries, stable, lget, lerr, rget, rerr, req, eff, ret, clean>>
    /\ UNCHANGED <<managerVars, discoveryVars, addVars>>

\* ingress.go:77-80  the two lister reads; lf / rf: the lookup fails with
\* an error other than not-found
HandleGet(w, lf, rf) ==
    LET n  == NameOf(item[w])
        le == IF lf THEN "Other" ELSE IF local[n].present THEN "nil" ELSE "NotFound"
        re == IF rf THEN "Other"
              ELSE IF remote[RemoteNamespace][n].uid # 0 THEN "nil" ELSE "NotFound"
    IN
    /\ ~Crashed
    /\ pc[w] = "read"
    /\ lerr' = [lerr EXCEPT ![w] = le]
    /\ lget' = [lget EXCEPT ![w] = IF le = "nil" THEN local[n] ELSE NoLocal]
    /\ IF Must(IgnoreNotFound(le))
       THEN /\ pc' = [pc EXCEPT ![w] = "panicked"]
            /\ UNCHANGED <<rget, rerr>>
       ELSE /\ rerr' = [rerr EXCEPT ![w] = re]
            /\ rget' = [rget EXCEPT ![w] =
                          IF re = "nil" THEN remote[RemoteNamespace][n] ELSE NoRemote]
            /\ pc' = [pc EXCEPT ![w] =
                          IF Must(IgnoreNotFound(re)) THEN "panicked" ELSE "enforce"]
    /\ clean' = [clean EXCEPT ![w] = TRUE]
    /\ UNCHANGED <<storeVars, queueVars, item, req, eff, ret, stable>>
    /\ UNCHANGED <<managerVars, discoveryVars, addVars>>

HandleGetOK(w) == HandleGet(w, FALSE, FALSE)

HandleGetFails(w) == \E lf, rf \in BOOLEAN : (lf \/ rf) /\ HandleGet(w, lf, rf)

\* ingress.go:83-113  the rest of Handle; fault: "none", or how the remote
\* API server fails the request ("error": unavailable or conflict,
\* "invalid": it rejects the applied object)
HandleEnforce(w, fault) ==
    LET k   == item[w]
        n   == NameOf(k)
        b   == Branch(lget[w], lerr[w], rget[w], rerr[w])
        m   == Mutation(lget[w])
        u   == DeletePrecondition(rget[w])
        cur == remote[IF b = "apply" THEN m.ns ELSE RemoteNamespace][n]
        resp == IF b = "apply" THEN ApplyResponse(cur, m, fault)
                ELSE IF b = "delete" THEN DeleteResponse(cur, u, fault)
                ELSE "none"
        new == IF resp \in {"created", "updated"} THEN ApplyOutcome(cur, m, nextUid)
               ELSE IF resp = "deleted" THEN NoRemote
               ELSE cur
        r   == IF b = "apply" THEN ApplyReturn(resp)
               ELSE IF b = "delete" THEN DeleteRemote(resp)
               ELSE "nil"
    IN
    /\ ~Crashed
    /\ pc[w] = "enforce"
    /\ fault = "error" => b \in {"apply", "delete"}
    /\ fault = "invalid" => b = "apply"
    /\ (b = "apply" /\ fault = "none" /\ cur.uid = 0) => nextUid <= MaxUid
    /\ req' = [req EXCEPT ![w] =
                 IF b = "apply"
                 THEN [op |-> "apply", ns |-> m.ns, uid |-> 0,
                       reflected |-> m.reflected, spec |-> m.spec]
                 ELSE IF b = "delete"
                 THEN [NoReq EXCEPT !.op = "delete", !.ns = RemoteNamespace, !.uid = u]
                 ELSE NoReq]
    /\ remote' = IF b = "apply" THEN [remote EXCEPT ![m.ns][n] = new]
                 ELSE [remote EXCEPT ![RemoteNamespace][n] = new]
    /\ nextUid' = IF resp = "created" THEN nextUid + 1 ELSE nextUid
    /\ eff' = [eff EXCEPT ![w] = resp]
    /\ ret' = [ret EXCEPT ![w] = r]
    /\ pc' = [pc EXCEPT ![w] = "ret"]
    /\ stable' = [stable EXCEPT ![k] =
                    IF r = "nil" /\ clean[w] THEN (IF @ = 0 THEN 1 ELSE 2) ELSE 0]
    \* the remote informer reports the change made by the engine itself
    /\ IF new # cur
       THEN Notify("remote", n)
       ELSE UNCHANGED <<queue, dirty, processing, retries>>
    /\ UNCHANGED <<local, budget, item, lget, lerr, rget, rerr, clean>>
    /\ UNCHANGED <<managerVars, discoveryVars, addVars>>

HandleEnforceOK(w) == HandleEnforce(w, "none")

HandleEnforceFails(w) == \E f \in {"error", "invalid"} : HandleEnforce(w, f)

\* worker loop after Handle returned: success forgets the key; a transient
\* failure requeues it up to MaxRetries times and then drops it; Done
\* requeues a key that was marked dirty while it was processed
Finish(w) ==
    LET k       == item[w]
        requeue == ShouldRequeue(ret[w], retries[k])
        d       == IF requeue THEN dirty \cup {k} ELSE dirty
    IN
    /\ ~Crashed
    /\ pc[w] = "ret"
    /\ retries' = [retries EXCEPT ![k] = IF requeue THEN @ + 1 ELSE 0]
    /\ dirty' = d
    /\ processing' = processing \ {k}
    /\ queue' = IF k \in d THEN Append(queue, k) ELSE queue
    /\ pc' = [pc EXCEPT ![w] = "idle"]
    /\ item' = [item EXCEPT ![w] = Key("a")]
    /\ lget' = [lget EXCEPT ![w] = NoLocal]
    /\ lerr' = [lerr EXCEPT ![w] = "nil"]
    /\ rget' = [rget EXCEPT ![w] = NoRemote]
    /\ rerr' = [rerr EXCEPT ![w] = "nil"]
    /\ req' = [req EXCEPT ![w] = NoReq]
    /\ eff' = [eff EXCEPT ![w] = "none"]
    /\ ret' = [ret EXCEPT ![w] = "none"]
    /\ clean' = [clean EXCEPT ![w] = FALSE]
    /\ UNCHANGED <<storeVars, stable>>
    /\ UNCHANGED <<managerVars, discoveryVars, addVars>>

----------------------------------------------------------------------------
EnvNext ==
    \/ \E n \in Names, v \in Values : LocalCreate(n, v)
    \/ \E n \in Names, v \in Values : LocalUpdate(n, v)
    \/ \E n \in Names : LocalDelete(n)
    \/ \E n \in Names, m \in BOOLEAN, v \in Values : RemoteCreate(n, m, v)
    \/ \E n \in Names, v \in Values : RemoteUpdate(n, v)
    \/ \E n \in Names : RemoteDelete(n)
    \/ \E n \in Names, m \in BOOLEAN, v \in Values : RemoteRecreate(n, m, v)

LiveNext ==
    \/ EnvNext
    \/ \E w \in Workers : Get(w)
    \/ \E w \in Workers : HandleGetOK(w)
    \/ \E w \in Workers : HandleEnforceOK(w)
    \/ \E w \in Workers : Finish(w)

Next ==
    \/ LiveNext
    \/ \E w \in Workers : HandleGetFails(w)
    \/ \E w \in Workers : HandleEnforceFails(w)

Spec == Init /\ [][Next]_vars

\* every worker keeps running, and the listers and the remote API server
\* answer their calls
LiveSpec ==
    /\ Init
    /\ [][LiveNext]_vars
    /\ \A w \in Workers :
         /\ WF_vars(Get(w))
         /\ WF_vars(HandleGetOK(w))
         /\ WF_vars(HandleEnforceOK(w))
         /\ WF_vars(Finish(w))

----------------------------------------------------------------------------
(* The Reflection Manager and the Reflectors of the kinds *)

\* ingress.go:50-53  NewIngressReflector builds the Reflector of the kind
\* with generic.WithoutFallback(); the other kind is fallback-tolerant
HasFallback_Always(kind) == TRUE
HasFallback(kind) == kind # IngressReflectorName

\* Start ensures that a Namespaced Reflector exists: it creates one only
\* where there is none
EnsureStarted_Again(c) == c + 1
EnsureStarted(c) == IF c = 0 THEN 1 ELSE c

\* Start and Stop reach every kind, whichever kinds failed before it
Reached_UntilFailure(kind, failed) ==
    \A i \in 1..(KindIndex(kind) - 1) : ReflectorKinds[i] \notin failed
Reached(kind, failed) == TRUE

\* the Reflector of the kind is subscribed to the notifications of the
\* namespace: a Namespaced Reflector of the kind exists for its mapping
Tracked_Always(kind, ns) == TRUE
Tracked(kind, ns) == reflectors[kind][MappingOf(ns)] > 0

\* the Reflector of the kind finds the Namespaced Reflector of the mapping,
\* and the remote namespace of the mapping is resolved
Resolves(kind, m) == reflectors[kind][m] > 0 /\ resolved[m]

ManagerInit ==
    /\ ReflectionInit
    /\ ToolsInit
    /\ reflectors = [k \in Kinds |-> [m \in Mappings |-> 0]]
    /\ resolved = [m \in Mappings |-> FALSE]
    /\ queues = [k \in Kinds |-> <<>>]
    /\ last = NoOp

\* Start(mapping); failed: the kinds whose start fails
Start(m, failed) ==
    /\ reflectors' = [k \in Kinds |-> [reflectors[k] EXCEPT ![m] =
                        IF Reached(k, failed) /\ k \notin failed
                        THEN EnsureStarted(@) ELSE @]]
    /\ last' = [NoOp EXCEPT !.op = "start", !.mapping = m, !.failed = failed,
                            !.had = {k \in Kinds : reflectors[k][m] > 0}]
    /\ UNCHANGED <<resolved, queues>>
    /\ UNCHANGED <<reflectionVars, discoveryVars, addVars>>

\* the remote namespace of a mapping that is starting gets resolved
Resolve(m) ==
    /\ ~resolved[m]
    /\ \E k \in Kinds : reflectors[k][m] > 0
    /\ resolved' = [resolved EXCEPT ![m] = TRUE]
    /\ last' = [NoOp EXCEPT !.op = "resolve", !.mapping = m]
    /\ UNCHANGED <<reflectors, queues>>
    /\ UNCHANGED <<reflectionVars, discoveryVars, addVars>>

\* Stop(mapping); failed: the kinds whose stop fails, they keep their
\* Namespaced Reflector
Stop(m, failed) ==
    LET after == [k \in Kinds |-> [reflectors[k] EXCEPT ![m] =
                    IF Reached(k, failed) /\ k \notin failed THEN 0 ELSE @]]
    IN
    /\ reflectors' = after
    /\ resolved' = [resolved EXCEPT ![m] = @ /\ \E k \in Kinds : after[k][m] > 0]
    /\ last' = [NoOp EXCEPT !.op = "stop", !.mapping = m, !.failed = failed,
                            !.had = {k \in Kinds : reflectors[k][m] > 0}]
    /\ UNCHANGED queues
    /\ UNCHANGED <<reflectionVars, discoveryVars, addVars>>

\* a change notification for object n of a namespace reaches the Reflector
\* of the kind
Notification(kind, ns, n) ==
    LET k == NamespacedKeyer(MappingOf(ns).local, n)
        q == queues[kind]
        pending == \E i \in 1..Len(q) : q[i].key = k
        outcome == IF ~Tracked(kind, ns) THEN "rejected"
                   ELSE IF pending THEN "coalesced"
                   ELSE "enqueued"
    IN
    /\ queues' = [queues EXCEPT ![kind] =
                    IF outcome = "enqueued"
                    THEN Append(@, [key |-> k, tries |-> 0]) ELSE @]
    /\ last' = [NoOp EXCEPT !.op = "notify", !.kind = kind, !.key = k,
                            !.outcome = outcome]
    /\ UNCHANGED <<reflectors, resolved>>
    /\ UNCHANGED <<reflectionVars, discoveryVars, addVars>>

\* a worker of the kind's Reflector takes the first key and dispatches it:
\* to Handle of the Namespaced Reflector, or to the fallback policy
Work(kind) ==
    LET e == Head(queues[kind])
        m == MappingOf(e.key[1])
        outcome == IF Resolves(kind, m) THEN "handled"
                   ELSE IF HasFallback(kind) THEN "deferred"
                   ELSE "unresolved"
        r == IF outcome = "unresolved" THEN "transient" ELSE "nil"
    IN
    /\ queues[kind] # <<>>
    /\ queues' = [queues EXCEPT ![kind] =
                    IF ShouldRequeue(r, e.tries)
                    THEN Append(Tail(@), [e EXCEPT !.tries = @ + 1])
                    ELSE Tail(@)]
    /\ last' = [NoOp EXCEPT !.op = "work", !.kind = kind, !.key = e.key,
                            !.outcome = outcome, !.ret = r]
    /\ UNCHANGED <<reflectors, resolved>>
    /\ UNCHANGED <<reflectionVars, discoveryVars, addVars>>

ManagerNext ==
    \/ \E m \in Mappings, failed \in SUBSET Kinds : Start(m, failed)
    \/ \E m \in Mappings : Resolve(m)
    \/ \E m \in Mappings, failed \in SUBSET Kinds : Stop(m, failed)
    \/ \E kind \in Kinds, ns \in MappedNamespaces, n \in ManagerNames :
          Notification(kind, ns, n)
    \/ \E kind \in Kinds : Work(kind)

ManagerSpec == ManagerInit /\ [][ManagerNext]_vars

----------------------------------------------------------------------------
(* The discovery controller: TTL of the clusters found on the LAN *)

\* an API call is <<operation, cluster ID>>; the sets of at most k calls,
\* out of those an operation can issue, that fail
RECURSIVE FaultSets(_, _)
FaultSets(calls, k) ==
    IF k = 0 THEN {{}}
    ELSE LET S == FaultSets(calls, k - 1) IN S \cup {F \cup {c} : F \in S, c \in calls}

\* part_001:69-113  the calls of UpdateTtl
TtlCalls == {<<"list", LocalClusterID>>} \cup ({"updateTtl", "delete"} \X ClusterIDs)

\* the outcome of a step of an operation: the stores and the calls issued
Outcome(f, s, a, c) == [foreign |-> f, secrets |-> s, advs |-> a, calls |-> c]

IDsOf(txts) == {txts[i].id : i \in 1..Len(txts)}

\* part_001:124-165  createForeign: the object it creates
NewForeign(txt, type) ==
    [exists |-> TRUE, type |-> type,
     ttl |-> IF type = LanDiscovery THEN DefaultTtl ELSE 0,
     url |-> txt.url, ns |-> txt.ns, caRef |-> FALSE, adv |-> FALSE]

\* part_001:90  fc.Status.Ttl != 3
NeedsReset_Always(ttl) == TRUE
NeedsReset(ttl) == ttl # DefaultTtl

\* part_001:103  fc.Status.Ttl -= 1
Decreased_ByTwo(ttl) == ttl - 2
Decreased(ttl) == ttl - 1

\* part_001:104  fc.Status.Ttl <= 0
Expired_BelowZero(ttl) == ttl < 0
Expired(ttl) == ttl <= 0

\* part_001:83-119  the body of the loop of UpdateTtl for one item of the list
TtlItem(o, id, txts, faults) ==
    LET fc == o.foreign[id]
        t  == Decreased(fc.ttl)
    IN
    IF id \in IDsOf(txts)
    THEN IF NeedsReset(fc.ttl)
         THEN [o EXCEPT !.calls = Append(@, <<"updateTtl", id>>),
                        !.foreign[id].ttl =
                            IF <<"updateTtl", id>> \in faults THEN @ ELSE DefaultTtl]
         ELSE o
    ELSE IF Expired(t)
         THEN [o EXCEPT !.calls = Append(@, <<"delete", id>>),
                        !.foreign[id] =
                            IF <<"delete", id>> \in faults THEN @ ELSE NoForeign]
         ELSE [o EXCEPT !.calls = Append(@, <<"updateTtl", id>>),
                        !.foreign[id].ttl =
                            IF <<"updateTtl", id>> \in faults THEN @ ELSE t]

\* part_001:69-71  the List with the selector discovery-type=LAN
IsLan(fc) == fc.exists /\ fc.type = LanDiscovery

\* part_001:82-120  the loop of UpdateTtl over the items from position i on
RECURSIVE TtlLoop(_, _, _, _, _)
TtlLoop(o, listed, i, txts, faults) ==
    IF i > Len(ListOrder) THEN o
    ELSE LET id == ListOrder[i] IN
         TtlLoop(IF id \in listed THEN TtlItem(o, id, txts, faults) ELSE o,
                 listed, i + 1, txts, faults)

\* part_001:67-122  UpdateTtl(txts)
TtlRound(o, txts, faults) ==
    LET listing == [o EXCEPT !.calls = Append(@, <<"list", LocalClusterID>>)] IN
    IF <<"list", LocalClusterID>> \in faults THEN listing
    ELSE TtlLoop(listing, {id \in ClusterIDs : IsLan(o.foreign[id])}, 1, txts, faults)

\* the stores as they are
Stores == Outcome(foreign, secrets, advs, <<>>)

\* an operation of the controller ends with outcome o
Spend(o, rec, cost) ==
    /\ rounds >= cost
    /\ rounds' = rounds - cost
    /\ foreign' = o.foreign
    /\ secrets' = o.secrets
    /\ advs' = o.advs
    /\ dlast' = [rec EXCEPT !.calls = o.calls,
                            !.faults = {c \in @ : \E i \in 1..Len(o.calls) : o.calls[i] = c}]
    /\ UNCHANGED <<reflectionVars, managerVars, addVars>>

Conclude(o, rec) == Spend(o, rec, 1)

\* the answers of a set of clusters of the LAN
Answers(ids) ==
    LET pick(i) == TxtData(ListOrder[i], "u1", "n1") IN
    SelectSeq([i \in 1..Len(ListOrder) |-> pick(i)], LAMBDA t : t.id \in ids)

\* part_001:124-165  createForeign of a cluster found by a discovery
CreateForeign(id, type, faults) ==
    LET txt == TxtData(id, "u1", "n1")
        made == [Stores EXCEPT !.calls = <<<<"create", id>>>>,
                               !.foreign[id] =
                                   IF <<"create", id>> \in faults THEN @
                                   ELSE NewForeign(txt, type)]
    IN
    /\ ~foreign[id].exists
    /\ Conclude(made, [NoDiscovery EXCEPT !.op = "create", !.data = <<txt>>,
                                          !.type = type, !.faults = faults,
                                          !.err = <<"create", id>> \in faults])

CreateForeignLan(id, faults) == CreateForeign(id, LanDiscovery, faults)

\* part_001:67-122  a round of UpdateTtl
UpdateTtl(txts, faults) ==
    Conclude(TtlRound(Stores, txts, faults),
             [NoDiscovery EXCEPT !.op = "ttl", !.data = txts, !.type = LanDiscovery,
                                 !.faults = faults,
                                 !.err = <<"list", LocalClusterID>> \in faults])

TtlNext ==
    \/ \E id \in ForeignIDs :
          \E faults \in FaultSets({<<"create", id>>}, MaxFaults) :
             CreateForeignLan(id, faults)
    \/ \E ids \in SUBSET ForeignIDs,
          faults \in FaultSets({c \in TtlCalls : c[2] # "local" \/ c[1] = "list"}, MaxFaults) :
          UpdateTtl(Answers(ids), faults)

TtlSpec == Init /\ [][TtlNext]_vars

----------------------------------------------------------------------------
(* The discovery controller: UpdateForeign and CheckUpdate *)

\* part_001:24-28  the discovery type follows from the search domain
SearchDomains == {"nil", "sd"}
DiscoveryTypeOf(sd) == IF sd = "nil" THEN LanDiscovery ELSE WanDiscovery

\* part_001:30  txtData.ID == discovery.ClusterId.GetClusterID()
IsLocal_Never(txt) == FALSE
IsLocal(txt) == txt.id = LocalClusterID

\* part_001:168  fc.HasHigherPriority(discoveryType): a cluster known from
\* the WAN is found on the LAN
HasHigherPriority(fc, type) == fc.type = WanDiscovery /\ type = LanDiscovery

\* part_001:168  the discovered data differs from the stored ForeignCluster
Differs_Always(fc, txt, type) == TRUE
Differs(fc, txt, type) ==
    fc.url # txt.url \/ fc.ns # txt.ns \/ HasHigherPriority(fc, type)

\* part_001:176-177  Secrets(...).Delete returns an error: the call fails,
\* or there is no such secret
SecretDeleteFailed(o, id, faults) ==
    <<"deleteSecret", id>> \in faults \/ id \notin o.secrets

\* part_001:200-201  the Update that clears the Advertisement returns an error
AdvUpdateFailed_Ignored(id, faults) == FALSE
AdvUpdateFailed(id, faults) == <<"updateAdv", id>> \in faults

\* the result of a call of CheckUpdate or createForeign: the outcome, and
\* whether an error is returned
Result(o, err) == [o |-> o, err |-> err]

Issue(o, op, id) == [o EXCEPT !.calls = Append(@, <<op, id>>)]

\* part_001:194-216  CheckUpdate on a ForeignCluster that references an
\* Advertisement: clear the reference, store, delete the Advertisement
DropAdvertisement(o, id, faults) ==
    LET o1 == Issue(o, "updateAdv", id)
        o2 == IF <<"updateAdv", id>> \in faults THEN o1
              ELSE [o1 EXCEPT !.foreign[id].adv = FALSE]
        o3 == Issue(o2, "deleteAdv", id)
    IN
    IF AdvUpdateFailed(id, faults) THEN Result(o2, TRUE)
    ELSE IF <<"deleteAdv", id>> \in faults \/ id \notin o2.advs THEN Result(o3, TRUE)
    ELSE Result([o3 EXCEPT !.advs = @ \ {id}], FALSE)

\* part_001:167-220  CheckUpdate(txtData, fc, discoveryType, searchDomain),
\* fc being the stored ForeignCluster of the ID
CheckUpdateResult(o, txt, type, faults) ==
    LET id == txt.id
        fc == o.foreign[id]
        o1 == IF fc.caRef THEN Issue(o, "deleteSecret", id) ELSE o
        o2 == IF fc.caRef /\ <<"deleteSecret", id>> \notin faults
              THEN [o1 EXCEPT !.secrets = @ \ {id}] ELSE o1
        o3 == Issue(o2, "update", id)
        o4 == [o3 EXCEPT !.foreign[id] =
                   [fc EXCEPT !.url = txt.url, !.ns = txt.ns, !.type = type,
                              !.caRef = FALSE]]
    IN
    IF ~Differs(fc, txt, type) THEN Result(o, FALSE)
    ELSE IF fc.caRef /\ SecretDeleteFailed(o, id, faults) THEN Result(o1, TRUE)
    ELSE IF <<"update", id>> \in faults THEN Result(o3, TRUE)
    ELSE IF o4.foreign[id].adv THEN DropAdvertisement(o4, id, faults)
    ELSE Result(o4, FALSE)

\* part_001:124-165  createForeign(txtData, sd, discoveryType)
CreateForeignResult(o, txt, type, faults) ==
    LET o1 == Issue(o, "create", txt.id) IN
    IF <<"create", txt.id>> \in faults THEN Result(o1, TRUE)
    ELSE Result([o1 EXCEPT !.foreign[txt.id] = NewForeign(txt, type)], FALSE)

\* part_001:29-56  the loop of UpdateForeign over the entries from position
\* i on; acc: the outcome so far and the IDs to return
RECURSIVE ForeignLoop(_, _, _, _, _)
ForeignLoop(acc, data, i, type, faults) ==
    IF i > Len(data) THEN acc
    ELSE
    LET txt == data[i]
        got == Issue(acc.o, "get", txt.id)
        res == IF got.foreign[txt.id].exists
               THEN CheckUpdateResult(got, txt, type, faults)
               ELSE CreateForeignResult(got, txt, type, faults)
        nxt == IF IsLocal(txt) THEN acc
               ELSE IF <<"get", txt.id>> \in faults THEN [acc EXCEPT !.o = got]
               ELSE IF res.err THEN [acc EXCEPT !.o = res.o]
               ELSE [o |-> res.o, returned |-> Append(acc.returned, txt.id)]
    IN ForeignLoop(nxt, data, i + 1, type, faults)

\* part_001:21-61  UpdateForeign(data, sd): the loop, then UpdateTtl after a
\* discovery on the LAN
UpdateForeignResult(o, data, sd, faults) ==
    LET type == DiscoveryTypeOf(sd)
        acc  == ForeignLoop([o |-> o, returned |-> <<>>], data, 1, type, faults)
    IN IF type = LanDiscovery
       THEN [acc EXCEPT !.o = TtlRound(acc.o, data, faults)]
       ELSE acc

\* the calls UpdateForeign can issue for the entries of data
ForeignCalls(data) ==
    ({"get", "create", "update", "updateAdv", "deleteSecret", "deleteAdv"}
        \X (IDsOf(data) \ {LocalClusterID}))
    \cup {c \in TtlCalls : c[2] \in IDsOf(data) \cup {LocalClusterID}}

\* the calls CheckUpdate can issue for a cluster
CheckCalls(id) == {"update", "updateAdv", "deleteSecret", "deleteAdv"} \X {id}

\* the answers a discovery can come back with, and the data of a
\* discovery: up to two answers
Answer == {TxtData(id, url, ns) : id \in ClusterIDs, url \in ApiUrls,
                                  ns \in ClusterNamespaces}
Discovered ==
    LET A == {t \in Answer : t.ns = "n1"} IN
    {<<>>} \cup {<<t>> : t \in A} \cup {<<t, u>> : t \in A, u \in A}

\* part_001:21-61  UpdateForeign
UpdateForeign(data, sd, faults) ==
    LET res == UpdateForeignResult(Stores, data, sd, faults) IN
    Spend(res.o,
          [NoDiscovery EXCEPT !.op = "foreign", !.data = data,
                              !.type = DiscoveryTypeOf(sd), !.faults = faults,
                              !.returned = res.returned],
          2)

\* part_001:167-220  CheckUpdate on the stored ForeignCluster of a cluster
CheckUpdate(txt, type, faults) ==
    LET res == CheckUpdateResult(Stores, txt, type, faults) IN
    /\ foreign[txt.id].exists
    /\ Conclude(res.o,
                [NoDiscovery EXCEPT !.op = "check", !.data = <<txt>>, !.type = type,
                                    !.faults = faults, !.err = res.err,
                                    !.returned = IF res.err THEN <<>> ELSE <<txt.id>>])

\* the foreign cluster operator fetches the CA data of a cluster and
\* references the secret in the ForeignCluster
StoreCaData(id) ==
    /\ foreign[id].exists /\ ~foreign[id].caRef
    /\ Conclude([Stores EXCEPT !.foreign[id].caRef = TRUE, !.secrets = @ \cup {id}],
                [NoDiscovery EXCEPT !.op = "cadata"])

\* the peering with a cluster is set up: its Advertisement is stored and
\* referenced in the ForeignCluster
Peer(id) ==
    /\ foreign[id].exists /\ ~foreign[id].adv
    /\ Conclude([Stores EXCEPT !.foreign[id].adv = TRUE, !.advs = @ \cup {id}],
                [NoDiscovery EXCEPT !.op = "peer"])

\* discoveries on the LAN and on the WAN
DiscoveryNext ==
    \E data \in Discovered, sd \in SearchDomains :
       \E faults \in FaultSets(ForeignCalls(data), MaxFaults) :
          UpdateForeign(data, sd, faults)

DiscoverySpec == Init /\ [][DiscoveryNext]_vars

\* clusters are found, peered with, and found again with other data
CheckNext ==
    \/ \E id \in ForeignIDs, type \in {LanDiscovery, WanDiscovery} :
          \E faults \in FaultSets({<<"create", id>>}, MaxFaults) :
             CreateForeign(id, type, faults)
    \/ \E txt \in Answer, type \in {LanDiscovery, WanDiscovery} :
          \E faults \in FaultSets(CheckCalls(txt.id), MaxFaults) :
             CheckUpdate(txt, type, faults)
    \/ \E id \in ForeignIDs : StoreCaData(id)
    \/ \E id \in ForeignIDs : Peer(id)

CheckSpec == Init /\ [][CheckNext]_vars

-----------------------------------------------------------------------------
(* liqoctl add: processAddCluster and enforceForeignCluster *)

\* the outcome of a run: the ForeignClusters, the token secrets, the calls
AddOutcome(c, k, calls) == [clusters |-> c, tokens |-> k, calls |-> calls]

Call(o, op) == [o EXCEPT !.calls = Append(@, op)]

Issued(rec, op) == \E i \in 1..Len(rec.calls) : rec.calls[i] = op

\* handler.go:111  clusterIdentity.ClusterID == t.ClusterID
SameCluster_Never(t) == FALSE
SameCluster(t) == t.id = LocalClusterID

\* handler.go:134, 140, 143  a field that is not set
Unset(v) == v = "" \/ v = "nil"

\* handler.go:124  GetForeignClusterByID: the names of the ForeignClusters
\* that carry the cluster ID label
ByID(c, id) == {n \in AddNames : c[n].exists /\ c[n].label = id}

\* handler.go:132-147  the mutate function of CreateOrUpdate
Mutate(fc, t) ==
    [fc EXCEPT !.id = t.id,
               !.name = IF Unset(@) THEN t.name ELSE @,
               !.url = t.url,
               !.outgoing = "Yes",
               !.incoming = IF Unset(@) THEN "Auto" ELSE @,
               !.insecure = IF Unset(@) THEN "true" ELSE @]

\* handler.go:126-127  the object built when no ForeignCluster has the ID
FreshCluster(t) == [NoCluster EXCEPT !.exists = TRUE, !.label = t.id]

\* handler.go:131  the object after the Get of CreateOrUpdate found one of
\* its name: the stored object; the label of the object passed in is kept
\* by the decoding when the stored object has no labels and merge holds
Fetched(stored, passed, merge) ==
    IF stored.label = "-" /\ merge THEN [stored EXCEPT !.label = passed.label]
    ELSE stored

\* handler.go:122-149  enforceForeignCluster(ctx, cl, t)
EnforceResult(o, t, faults, merge) ==
    LET o1     == Call(o, "list")
        found  == ByID(o.clusters, t.id)
        key    == IF found = {} THEN t.name ELSE CHOOSE n \in found : TRUE
        passed == IF found = {} THEN FreshCluster(t) ELSE o.clusters[key]
        o2     == Call(o1, "get")
        stored == o.clusters[key]
        made   == Mutate(passed, t)
        o3     == Call(o2, "create")
        new    == Mutate(Fetched(stored, passed, merge), t)
        o4     == Call(o2, "update")
    IN
    IF "list" \in faults THEN Result(o1, TRUE)
    ELSE IF "get" \in faults THEN Result(o2, TRUE)
    ELSE IF ~stored.exists
         THEN IF "create" \in faults THEN Result(o3, TRUE)
              ELSE Result([o3 EXCEPT !.clusters[key] = made], FALSE)
    ELSE IF new = stored THEN Result(o2, FALSE)
    ELSE IF "update" \in faults THEN Result(o4, TRUE)
    ELSE Result([o4 EXCEPT !.clusters[key] = new], FALSE)

\* handler.go:99-120  processAddCluster(ctx, t, clientSet, k8sClient)
ProcessResult(o, t, faults, merge) ==
    LET o1 == Call(o, "storeInSecret")
        o2 == Call([o1 EXCEPT !.tokens = @ \cup {t.id}], "getIdentity")
    IN
    IF "storeInSecret" \in faults THEN Result(o1, TRUE)
    ELSE IF "getIdentity" \in faults THEN Result(o2, TRUE)
    ELSE IF SameCluster(t) THEN Result(o2, TRUE)
    ELSE EnforceResult(o2, t, faults, merge)

\* the calls a run of the add command can issue
AddCalls == {"storeInSecret", "getIdentity", "list", "get", "create", "update"}

\* handler.go:99-120  liqoctl add with the arguments t
ProcessAddCluster(t, faults, merge) ==
    LET res == ProcessResult(AddOutcome(clusters, tokens, <<>>), t, faults, merge) IN
    /\ rounds >= 2
    /\ rounds' = rounds - 2
    /\ clusters' = res.o.clusters
    /\ tokens' = res.o.tokens
    /\ alast' = [op |-> "add", args |-> t, calls |-> res.o.calls, err |-> res.err,
                 merge |-> merge /\ Issued(res.o, "get"),
                 faults |-> {c \in faults :
                               \E i \in 1..Len(res.o.calls) : res.o.calls[i] = c}]
    /\ UNCHANGED <<reflectionVars, managerVars, foreign, secrets, advs, dlast>>

\* a ForeignCluster that is there before the add command is used, as
\* another component or the user left it: with or without the cluster ID
\* label, its fields set or not; at most one ForeignCluster carries the
\* label of a cluster
Discover(n, label, set) ==
    /\ alast.op \in {"none", "discover"}
    /\ ~clusters[n].exists
    /\ label # "-" => ByID(clusters, label) = {}
    /\ clusters' = [clusters EXCEPT ![n] =
           IF set THEN [exists |-> TRUE, label |-> label, id |-> label, name |-> "old",
                        url |-> "a0", outgoing |-> "No", incoming |-> "No",
                        insecure |-> "false"]
           ELSE [NoCluster EXCEPT !.exists = TRUE, !.label = label]]
    /\ alast' = [NoAdd EXCEPT !.op = "discover"]
    /\ UNCHANGED <<tokens, reflectionVars, managerVars, discoveryVars>>

AddNext ==
    \/ \E id \in ClusterIDs, n \in AddNames, url \in AuthUrls, merge \in BOOLEAN :
          \E faults \in FaultSets(AddCalls, MaxFaults) :
             ProcessAddCluster(ClusterArgs(id, n, url), faults, merge)
    \/ \E n \in AddNames, label \in ForeignIDs \cup {"-"}, set \in BOOLEAN :
          Discover(n, label, set)

AddSpec == Init /\ [][AddNext]_vars

----------------------------------------------------------------------------
TypeOK ==
    /\ budget \in 0..MaxEnv
    /\ nextUid \in 1..(MaxUid + 1)
    /\ dirty \subseteq Keys
    /\ processing \subseteq Keys
    /\ \A w \in Workers : pc[w] \in {"idle", "read", "enforce", "ret", "panicked"}

----------------------------------------------------------------------------
(* Properties of Handle and of the work queue *)

Busy(w) == pc[w] \in {"read", "enforce", "ret", "panicked"}

\* the step in which worker w runs Handle from its sanity check to its return
Enforces(w) == pc[w] = "enforce" /\ pc'[w] = "ret"

\* the remote object Handle(name) of worker w is about, as it is now
Live(w) == remote[RemoteNamespace][NameOf(item[w])]

\* C1: whenever the remote object Handle read exists and lacks the ownership
\* marker, Handle issues no Apply and no Delete, returns nil and leaves the
\* remote store unchanged, whether the local object is present or absent.
C1_OwnershipSafety ==
    [][\A w \in Workers :
         (Enforces(w) /\ rerr[w] = "nil" /\ ~rget[w].reflected)
         => /\ req'[w] = NoReq
            /\ ret'[w] = "nil"
            /\ remote' = remote]_vars

\* Scenario B: Handle returned after finding local X and an unowned remote X.
C1_Witness ==
    \E w \in Workers :
        /\ pc[w] = "ret"
        /\ lget[w].present
        /\ rerr[w] = "nil" /\ ~rget[w].reflected
        /\ Live(w) = rget[w]
        /\ req[w] = NoReq /\ ret[w] = "nil"

C3_IdentityCheckedDelete ==
    [][\A w \in Workers :
         (/\ Enforces(w)
          /\ lerr[w] = "NotFound"
          /\ rerr[w] = "nil" /\ rget[w].reflected
          /\ Live(w).uid # 0 /\ Live(w).uid # rget[w].uid)
         => /\ remote' = remote
            /\ req'[w].op = "delete"
            /\ eff'[w] \in {"conflict", "error"}
            /\ eff'[w] = "conflict" => ret'[w] = "nil"]_vars

C3_Witness ==
    \E w \in Workers :
        /\ pc[w] = "ret"
        /\ lerr[w] = "NotFound"
        /\ rget[w].reflected
        /\ req[w].op = "delete" /\ req[w].uid = rget[w].uid
        /\ eff[w] = "conflict" /\ ret[w] = "nil"
        /\ Live(w).uid # 0 /\ Live(w).uid # rget[w].uid

\* C4: a Handle that follows a successful Handle of the same key, with no
\* external mutation of the local or the remote object since that first
\* Handle began, leaves the remote store as the first one left it.
C4_Idempotence ==
    [][\A w \in Workers :
         (Enforces(w) /\ stable[item[w]] >= 1) => remote' = remote]_vars

\* the second of two consecutive Handle calls on a fixed state has returned
C4_Witness ==
    \E w \in Workers :
        /\ pc[w] = "ret"
        /\ stable[item[w]] = 2
        /\ lget[w].present
        /\ req[w].op = "apply"
        /\ ret[w] = "nil"

\* C5 as stated: when the local object is present and the owned remote object
\* already equals the desired one, Handle issues no write (no Apply, no
\* Delete) to the remote store.
C5_NoRequestOnNoop ==
    [][\A w \in Workers :
         (/\ Enforces(w)
          /\ lget[w].present
          /\ rerr[w] = "nil" /\ rget[w].reflected
          /\ rget[w].spec = RemoteIngress(lget[w], RemoteNamespace).spec)
         => req'[w] = NoReq]_vars

\* C5 as amended: in that case Handle still issues its Apply request (it
\* never compares desired and current), and that Apply, answered without
\* error on the object Handle read, changes nothing in the remote store.
C5_ApplyOnNoopChangesNothing ==
    [][\A w \in Workers :
         (/\ Enforces(w)
          /\ lget[w].present
          /\ rerr[w] = "nil" /\ rget[w].reflected
          /\ rget[w].spec = RemoteIngress(lget[w], RemoteNamespace).spec)
         => /\ req'[w].op = "apply"
            /\ req'[w].spec = rget[w].spec
            /\ (Live(w) = rget[w] \/ eff'[w] \in {"error", "invalid"})
                 => (remote' = remote /\ eff'[w] \in {"unchanged", "error", "invalid"})]_vars

C5_Witness ==
    \E w \in Workers :
        /\ pc[w] = "ret"
        /\ lget[w].present
        /\ rerr[w] = "nil" /\ rget[w].reflected
        /\ rget[w].spec = lget[w].spec
        /\ req[w].op = "apply"
        /\ eff[w] = "unchanged" /\ ret[w] = "nil"
        /\ Live(w) = rget[w]

\* C6: a successful Handle that found the remote object absent or owned
\* leaves it with the translation of the local object it read, which is the
\* latest local state when no mutation came in after the read; the remote
\* object is never left at an older local state.
C6_ConvergesToLast ==
    [][\A w \in Workers :
         (/\ Enforces(w)
          /\ lget[w].present
          /\ rerr[w] = "NotFound" \/ rget[w].reflected
          /\ ret'[w] = "nil")
         => LET n == NameOf(item[w])
                after == remote'[RemoteNamespace][n]
            IN /\ after.uid # 0
               /\ after.spec = RemoteIngress(lget[w], RemoteNamespace).spec
               /\ clean[w] =>
                    after.spec = RemoteIngress(local[n], RemoteNamespace).spec]_vars

\* two local mutations (create, update) were coalesced into the one Handle
\* that created the remote object: both external steps are used up, the only
\* UID handed out is that of the object Handle created, and nothing touched
\* the key since Handle read it
C6_Witness ==
    \E w \in Workers :
        /\ pc[w] = "ret"
        /\ clean[w]
        /\ budget = MaxEnv - 2
        /\ nextUid = 2
        /\ \A n \in Names \ {NameOf(item[w])} :
              ~local[n].present /\ remote[RemoteNamespace][n].uid = 0
        /\ eff[w] = "created" /\ ret[w] = "nil"
        /\ local[NameOf(item[w])].present
        /\ Live(w).spec = local[NameOf(item[w])].spec

\* C7: when the local object exists and no remote object of that name does,
\* a successful Handle creates the remote object in the mapped remote
\* namespace, with the ownership marker and the translated fields; every
\* object Handle creates carries the marker.
C7_Creation ==
    [][\A w \in Workers :
         /\ (/\ Enforces(w)
             /\ lget[w].present
             /\ rerr[w] = "NotFound"
             /\ Live(w).uid = 0
             /\ ret'[w] = "nil")
            => LET n == NameOf(item[w])
               IN /\ eff'[w] = "created"
                  /\ remote'[RemoteNamespace][n].uid # 0
                  /\ remote'[RemoteNamespace][n].spec = lget[w].spec
                  /\ \A ns \in RemoteNamespaces \ {RemoteNamespace} :
                        remote'[ns] = remote[ns]
         /\ (Enforces(w) /\ eff'[w] = "created")
            => IsReflected(remote'[RemoteNamespace][NameOf(item[w])])]_vars

\* Scenario A: Handle returned after creating the owned remote object
C7_Witness ==
    \E w \in Workers :
        /\ pc[w] = "ret"
        /\ lget[w].present
        /\ rerr[w] = "NotFound"
        /\ eff[w] = "created" /\ ret[w] = "nil"
        /\ IsReflected(Live(w))
        /\ Live(w).spec = lget[w].spec

ReadFailed(w) == lerr[w] = "Other" \/ rerr[w] = "Other"

C9_BothAbsent ==
    [][\A w \in Workers :
         (Enforces(w) /\ lerr[w] = "NotFound" /\ rerr[w] = "NotFound")
         => /\ req'[w] = NoReq
            /\ ret'[w] = "nil"
            /\ remote' = remote]_vars

C9_Witness ==
    \E w \in Workers :
        /\ pc[w] = "ret"
        /\ lerr[w] = "NotFound" /\ rerr[w] = "NotFound"
        /\ req[w] = NoReq /\ ret[w] = "nil"

\* C10: no key is held by two workers at the same time, and a key is never
\* both queued and held.
C10_SingleWorkerPerKey ==
    /\ \A w1, w2 \in Workers :
          (w1 # w2 /\ Busy(w1) /\ Busy(w2)) => item[w1] # item[w2]
    /\ \A w \in Workers : Busy(w) => item[w] \in processing
    /\ \A i \in 1..Len(queue) : queue[i] \notin processing

\* both workers are busy, and the key of one was enqueued again meanwhile
C10_Witness ==
    \E w1, w2 \in Workers :
        /\ w1 # w2
        /\ Busy(w1) /\ Busy(w2)
        /\ item[w1] \in dirty

----------------------------------------------------------------------------
(* Queue discipline, races and repair *)

InQueue(q, k) == \E i \in 1..Len(q) : q[i] = k

NoDuplicates(q) == \A i, j \in 1..Len(q) : q[i] = q[j] => i = j

\* the step in which another actor changes object n on one side
Notified(side, n) ==
    /\ budget' = budget - 1
    /\ IF side = "local" THEN local'[n] # local[n]
       ELSE remote'[RemoteNamespace][n] # remote[RemoteNamespace][n]

\* the step in which worker w takes a key from the queue
Gets(w) == pc[w] = "idle" /\ pc'[w] = "read"

\* the step in which worker w gives the outcome of Handle back to the queue
Finishes(w) == pc[w] = "ret" /\ pc'[w] = "idle"

\* the key is forgotten: it is queued again only if a notification came in
\* while it was processed
Dropped(k) == retries'[k] = 0 /\ (InQueue(queue', k) <=> k \in dirty)

\* the remote object of name n is the translation of the local object
Translated(n) ==
    /\ remote[RemoteNamespace][n].uid # 0
    /\ remote[RemoteNamespace][n].reflected = Mutation(local[n]).reflected
    /\ remote[RemoteNamespace][n].spec = Mutation(local[n]).spec

\* C11: a key is pending at most once: a notification for a key that is
\* already pending leaves the queue unchanged, and the one Get that takes
\* the key for Handle takes all the pending notifications with it.
C11_Coalescing ==
    /\ [](NoDuplicates(queue) /\ \A i \in 1..Len(queue) : queue[i] \in dirty)
    /\ [][/\ \A side \in Sides, n \in Names :
              (Notified(side, n) /\ EventKey(side, n) \in dirty)
              => (queue' = queue /\ dirty' = dirty)
          /\ \A w \in Workers :
              Gets(w) => (item'[w] \notin dirty' /\ ~InQueue(queue', item'[w]))]_vars

\* two notifications for one name, create and delete, before any Get: one
\* pending entry
C11_Witness ==
    \E n \in Names :
        /\ budget = MaxEnv - 2
        /\ queue = <<Key(n)>>
        /\ ~local[n].present
        /\ nextUid = 1
        /\ \A w \in Workers : pc[w] = "idle"
        /\ \A k \in Keys : retries[k] = 0

\* C12: a failed Apply is returned as a transient failure and a rejected one
\* as a fatal failure; after a transient failure the key is queued again
\* while it has been requeued fewer than MaxRetries times and dropped
\* afterwards; after a fatal failure or a success it is dropped at once.
C12_RetryDiscipline ==
    /\ [](\A k \in Keys : retries[k] <= MaxRetries)
    /\ [](\A w \in Workers :
            pc[w] = "ret"
            => /\ eff[w] = "error" => ret[w] = "transient"
               /\ eff[w] = "invalid" => ret[w] = "fatal")
    /\ [][\A w \in Workers :
            Finishes(w)
            => LET k == item[w] IN
               /\ (ret[w] = "transient" /\ retries[k] < MaxRetries)
                    => (InQueue(queue', k) /\ retries'[k] = retries[k] + 1)
               /\ (ret[w] = "transient" /\ retries[k] >= MaxRetries) => Dropped(k)
               /\ ret[w] \in {"nil", "fatal"} => Dropped(k)]_vars

\* Apply failed again for a key that was requeued MaxRetries times already
C12_Witness ==
    \E w \in Workers :
        /\ pc[w] = "ret"
        /\ req[w].op = "apply"
        /\ eff[w] = "error"
        /\ ret[w] = "transient"
        /\ retries[item[w]] = MaxRetries

\* C17: when Handle read the remote object as absent or as owned, and the
\* remote object is unowned by the time Handle applies, the Apply leaves
\* that object as it is.
C17_NoClobberingUnderRace ==
    [][\A w \in Workers :
         (/\ Enforces(w)
          /\ rerr[w] = "NotFound" \/ IsReflected(rget[w])
          /\ Live(w).uid # 0 /\ ~IsReflected(Live(w)))
         => remote'[RemoteNamespace][NameOf(item[w])] = Live(w)]_vars

C19_KeyUnification ==
    /\ [](\A n \in Names :
            EventKey("local", n) = Key(n) /\ EventKey("remote", n) = Key(n))
    /\ [][\A side \in Sides, n \in Names :
            Notified(side, n)
            => /\ Key(n) \in dirty'
               /\ \A k \in dirty' \ dirty : k = Key(n)
               /\ Key(n) \in dirty => queue' = queue]_vars

\* a local and a remote notification for one name, one pending entry
C19_Witness ==
    \E n \in Names :
        /\ budget = MaxEnv - 2
        /\ local[n].present
        /\ remote[RemoteNamespace][n].uid = 1
        /\ nextUid = 2
        /\ queue = <<Key(n)>>
        /\ \A w \in Workers : pc[w] = "idle"
        /\ \A k \in Keys : retries[k] = 0

\* C20: no step of a worker changes the local store; the only remote object
\* a Handle invocation changes is the one of its name in the remote
\* namespace of the mapping, and every request it issues is for that
\* namespace.
C20_HandleWritesOnlyItsRemoteObject ==
    [][\A w \in Workers :
         /\ pc'[w] # pc[w] => local' = local
         /\ (pc'[w] # pc[w] /\ ~Enforces(w)) => remote' = remote
         /\ Enforces(w)
            => /\ \A ns \in RemoteNamespaces, n \in Names :
                    (ns # RemoteNamespace \/ n # NameOf(item[w]))
                    => remote'[ns][n] = remote[ns][n]
               /\ req'[w].op # "none" => req'[w].ns = RemoteNamespace]_vars

\* Handle created its remote object while the other name has a local and a
\* remote object, and the other namespace an object of the same name
C20_Witness ==
    \E w \in Workers :
        LET n == NameOf(item[w]) IN
        /\ pc[w] = "ret"
        /\ eff[w] = "created"
        /\ remote["ns-other"][n].uid # 0
        /\ \E o \in Names \ {n} :
              local[o].present /\ remote[RemoteNamespace][o].uid # 0

----------------------------------------------------------------------------
(* Properties of the Reflection Manager *)

\* the step in which a worker of the kind's Reflector dispatches a key
Works(kind) == last'.op = "work" /\ last'.kind = kind /\ queues'[kind] # queues[kind]

\* the step in which a notification reaches the Reflector of the kind
Notifies(kind) == last'.op = "notify" /\ last'.kind = kind

\* C13: a key is dispatched while the remote namespace of its mapping is
\* not resolved: the fallback-tolerant kind defers it, with no error and no
\* retry; the Ingress kind, built without fallback, reports a transient
\* failure, and the key is queued again while it has retries left.
C13_FallbackPolicy ==
    [][\A kind \in Kinds :
         (Works(kind) /\ ~resolved[MappingOf(Head(queues[kind]).key[1])])
         => LET e == Head(queues[kind]) IN
            IF kind = IngressReflectorName
            THEN /\ last'.outcome = "unresolved"
                 /\ last'.ret = "transient"
                 /\ e.tries < MaxRetries
                    => queues'[kind] = Append(Tail(queues[kind]),
                                              [e EXCEPT !.tries = @ + 1])
            ELSE /\ last'.outcome = "deferred"
                 /\ last'.ret = "nil"
                 /\ queues'[kind] = Tail(queues[kind])]_vars

\* the mapping is still starting: the Ingress key was dispatched, failed
\* as unresolved and waits for its retry
C13_Witness ==
    LET m == MappingOf(last.key[1]) IN
    /\ last.op = "work"
    /\ last.kind = IngressReflectorName
    /\ last.outcome = "unresolved"
    /\ reflectors[IngressReflectorName][m] = 1
    /\ ~resolved[m]
    /\ queues[IngressReflectorName] = <<[key |-> last.key, tries |-> 1]>>

\* C14: there is never more than one Namespaced Reflector of a kind for a
\* mapping.
C14_Uniqueness ==
    \A k \in Kinds, m \in Mappings : reflectors[k][m] <= 1

\* Start was repeated for a mapping whose kinds were all started
C14_Witness ==
    /\ last.op = "start"
    /\ last.failed = {}
    /\ last.had = Kinds
    /\ \A k \in Kinds : reflectors[k][last.mapping] = 1

\* C15: after Start of a mapping every kind whose start did not fail has a
\* Namespaced Reflector for it, and after Stop no kind whose stop did not
\* fail has one, whichever kinds failed.
C15_FailureIsolation ==
    /\ last.op = "start"
       => \A k \in Kinds \ last.failed : reflectors[k][last.mapping] >= 1
    /\ last.op = "stop"
       => \A k \in Kinds \ last.failed : reflectors[k][last.mapping] = 0

\* the start of the first kind failed, the kind after it was started
C15_Witness ==
    /\ last.op = "start"
    /\ last.failed = {ReflectorKinds[1]}
    /\ last.had = {}
    /\ reflectors[ReflectorKinds[1]][last.mapping] = 0
    /\ reflectors[ReflectorKinds[2]][last.mapping] = 1

\* C16: while a kind has no Namespaced Reflector for a mapping, as after
\* Stop, a notification for a namespace of the mapping adds no key to a
\* queue and no key of the mapping is handed to Handle.
C16_StopClosesTheMapping ==
    [][\A kind \in Kinds :
         /\ (Notifies(kind) /\ reflectors[kind][MappingOf(last'.key[1])] = 0)
            => queues' = queues
         /\ (Works(kind)
             /\ reflectors[kind][MappingOf(Head(queues[kind]).key[1])] = 0)
            => last'.outcome # "handled"]_vars

\* a key was queued when the mapping was stopped; the next notification for
\* the mapping is rejected
C16_Witness ==
    /\ last.op = "notify"
    /\ last.outcome = "rejected"
    /\ \E i \in 1..Len(queues[last.kind]) : queues[last.kind][i].key = last.key
    /\ \A k \in Kinds : reflectors[k][MappingOf(last.key[1])] = 0

----------------------------------------------------------------------------
(* Properties of the discovery controller *)

\* the operation recorded in rec issued the call
Called(rec, op, id) == \E i \in 1..Len(rec.calls) : rec.calls[i] = <<op, id>>

\* the step is a round of UpdateTtl whose List succeeded
TtlRoundDone ==
    /\ rounds' = rounds - 1
    /\ dlast'.op = "ttl"
    /\ <<"list", LocalClusterID>> \notin dlast'.faults

\* C21 as stated: in every round of UpdateTtl a LAN ForeignCluster that did
\* not answer is gone when its TTL minus one is at most 0 and is stored with
\* its TTL minus one otherwise.
C21_LanTtlExpiryInEveryRound ==
    [][(rounds' = rounds - 1 /\ dlast'.op = "ttl")
       => \A id \in ForeignIDs :
            (IsLan(foreign[id]) /\ id \notin IDsOf(dlast'.data))
            => IF foreign[id].ttl - 1 <= 0
               THEN ~foreign'[id].exists
               ELSE foreign'[id] = [foreign[id] EXCEPT !.ttl = @ - 1]]_vars

\* C21, when the calls succeed: in a round of UpdateTtl whose List succeeds,
\* for a LAN ForeignCluster that did not answer a Delete is issued when its
\* TTL minus one is at most 0 and an Update with its TTL minus one
\* otherwise, and the store follows when that call succeeds; no
\* ForeignCluster disappears in a round it entered with a TTL above 1.
C21_LanTtlExpiry ==
    [][TtlRoundDone
       => \A id \in ForeignIDs :
            /\ (IsLan(foreign[id]) /\ id \notin IDsOf(dlast'.data))
               => IF foreign[id].ttl - 1 <= 0
                  THEN /\ Called(dlast', "delete", id)
                       /\ ~Called(dlast', "updateTtl", id)
                       /\ <<"delete", id>> \notin dlast'.faults => ~foreign'[id].exists
                  ELSE /\ Called(dlast', "updateTtl", id)
                       /\ ~Called(dlast', "delete", id)
                       /\ <<"updateTtl", id>> \notin dlast'.faults
                          => foreign'[id] = [foreign[id] EXCEPT !.ttl = @ - 1]
            /\ (foreign[id].exists /\ ~foreign'[id].exists) => foreign[id].ttl <= 1]_vars

\* a cluster was created and deleted in the third round in a row it missed
C21_Witness ==
    \E id \in ForeignIDs :
        /\ rounds = MaxRounds - 4
        /\ dlast.op = "ttl"
        /\ id \notin IDsOf(dlast.data)
        /\ Called(dlast, "delete", id)
        /\ ~foreign[id].exists

\* C22: in a round of UpdateTtl a LAN ForeignCluster that answered ends
\* with TTL 3 when its update succeeds, and no update is issued for it
\* when its TTL is 3 already.
C22_LanTtlReset ==
    [][TtlRoundDone
       => \A id \in ForeignIDs :
            (IsLan(foreign[id]) /\ id \in IDsOf(dlast'.data))
            => /\ ~Called(dlast', "delete", id)
               /\ IF foreign[id].ttl = 3
                  THEN ~Called(dlast', "updateTtl", id) /\ foreign'[id] = foreign[id]
                  ELSE /\ Called(dlast', "updateTtl", id)
                       /\ <<"updateTtl", id>> \notin dlast'.faults
                          => foreign'[id] = [foreign[id] EXCEPT !.ttl = 3]]_vars

\* a cluster missed a round, answered the next and is back at TTL 3
C22_Witness ==
    \E id \in ForeignIDs :
        /\ rounds = MaxRounds - 3
        /\ dlast.op = "ttl"
        /\ id \in IDsOf(dlast.data)
        /\ Called(dlast, "updateTtl", id)
        /\ foreign[id].exists /\ foreign[id].ttl = 3

\* C23: a stored LAN ForeignCluster has a TTL from 1 to 3, and no
\* ForeignCluster is stored with a TTL below 1.
C23_TtlRange ==
    \A id \in ForeignIDs :
        foreign[id].exists
        => (foreign[id].type = LanDiscovery /\ foreign[id].ttl \in 1..3)

\* the delete of an expired cluster failed: it is still stored, with TTL 1
C23_Witness ==
    \E id \in ForeignIDs :
        /\ dlast.op = "ttl"
        /\ <<"delete", id>> \in dlast.faults
        /\ Called(dlast, "delete", id)
        /\ foreign[id].exists /\ foreign[id].ttl = 1

\* the step is a call of UpdateForeign
ForeignDone == rounds' = rounds - 2 /\ dlast'.op = "foreign"

\* the positions of the calls of one kind in an operation
CallsOf(rec, op) == {i \in 1..Len(rec.calls) : rec.calls[i][1] = op}

\* the first entry of the data that carries the ID
FirstOf(data, id) ==
    data[CHOOSE i \in 1..Len(data) :
            data[i].id = id /\ \A j \in 1..(i - 1) : data[j].id # id]

\* C24: UpdateForeign issues no lookup, create or update for the local
\* cluster ID, stores nothing for it and does not return it; it looks up
\* every other entry of the data, whatever happened to the entries before
\* it; after a successful lookup it issues a create for an ID with no
\* ForeignCluster, which is stored and returned when the create succeeds,
\* and no create but the update of CheckUpdate for an ID with a
\* ForeignCluster whose data differs.
C24_UpdateForeignSkipsLocal ==
    [][ForeignDone
       => /\ \A op \in {"get", "create", "update"} :
                ~Called(dlast', op, LocalClusterID)
          /\ foreign'[LocalClusterID] = foreign[LocalClusterID]
          /\ \A i \in 1..Len(dlast'.returned) :
                /\ dlast'.returned[i] # LocalClusterID
                /\ dlast'.returned[i] \in IDsOf(dlast'.data)
          /\ Cardinality(CallsOf(dlast', "get"))
                = Cardinality({i \in 1..Len(dlast'.data) :
                                  dlast'.data[i].id # LocalClusterID})
          /\ \A id \in IDsOf(dlast'.data) \ {LocalClusterID} :
                <<"get", id>> \notin dlast'.faults
                => IF foreign[id].exists
                   THEN /\ ~Called(dlast', "create", id)
                        /\ Differs(foreign[id], FirstOf(dlast'.data, id), dlast'.type)
                           => Called(dlast', "update", id)
                   ELSE /\ Called(dlast', "create", id)
                        /\ <<"create", id>> \notin dlast'.faults
                           => /\ foreign'[id].exists
                              /\ \E i \in 1..Len(dlast'.returned) :
                                    dlast'.returned[i] = id]_vars

\* an entry of the local cluster came first and was skipped, the entry
\* after it was created
C24_Witness ==
    /\ dlast.op = "foreign"
    /\ Len(dlast.data) = 2
    /\ dlast.data[1].id = LocalClusterID /\ dlast.data[2].id = "c1"
    /\ dlast.returned = <<"c1">>
    /\ ~foreign[LocalClusterID].exists /\ foreign["c1"].exists

\* the create of the first entry failed, the second entry was created and
\* is the only one returned
C24_WitnessFailure ==
    /\ dlast.op = "foreign"
    /\ Len(dlast.data) = 2
    /\ dlast.data[1].id = "c1" /\ dlast.data[2].id = "c2"
    /\ <<"create", "c1">> \in dlast.faults
    /\ ~foreign["c1"].exists /\ foreign["c2"].exists
    /\ dlast.returned = <<"c2">>

\* the step is a call of CheckUpdate
CheckDone == rounds' = rounds - 1 /\ dlast'.op = "check"

\* the call is issued, and before it the other one
After(rec, op, id, before) ==
    \E i \in 1..Len(rec.calls) :
        /\ rec.calls[i] = <<op, id>>
        /\ \E j \in 1..(i - 1) : rec.calls[j] = <<before, id>>

\* C25: in CheckUpdate the delete of the Advertisement is issued only
\* after a successful update that stored the ForeignCluster without its
\* Advertisement reference; it is not issued when that update or the
\* update before it fails; a stored reference always has its
\* Advertisement; and on a peered cluster with differing data, when all
\* calls succeed, the reference is cleared and the Advertisement deleted.
C25_AdvertisementDeletedAfterUpdate ==
    [][CheckDone
       => LET id == dlast'.data[1].id IN
          /\ Called(dlast', "deleteAdv", id)
             => /\ After(dlast', "deleteAdv", id, "updateAdv")
                /\ <<"updateAdv", id>> \notin dlast'.faults
                /\ <<"update", id>> \notin dlast'.faults
                /\ ~foreign'[id].adv
          /\ (<<"updateAdv", id>> \in dlast'.faults \/ <<"update", id>> \in dlast'.faults)
             => (~Called(dlast', "deleteAdv", id) /\ advs' = advs)
          /\ \A c \in ForeignIDs : foreign'[c].adv => c \in advs'
          /\ (Differs(foreign[id], dlast'.data[1], dlast'.type)
                /\ foreign[id].adv /\ dlast'.faults = {} /\ ~dlast'.err)
             => (~foreign'[id].adv /\ id \notin advs'
                 /\ After(dlast', "deleteAdv", id, "updateAdv"))]_vars

\* a peered cluster was found with other data: its reference is cleared
\* and its Advertisement deleted
C25_Witness ==
    \E id \in ForeignIDs :
        /\ dlast.op = "check" /\ dlast.data[1].id = id
        /\ ~dlast.err
        /\ After(dlast, "deleteAdv", id, "updateAdv")
        /\ foreign[id].exists /\ ~foreign[id].adv
        /\ id \notin advs

\* the ForeignCluster as CheckUpdate means to store it for the data
Refreshed(fc, txt, type) ==
    /\ fc.url = txt.url /\ fc.ns = txt.ns /\ fc.type = type
    /\ ~fc.caRef

\* C26: in a CheckUpdate with differing data, when the delete of the
\* referenced secret fails an error is returned and the stored
\* ForeignCluster is as before; otherwise the referenced secret is gone and
\* the stored ForeignCluster has the discovered ApiUrl, Namespace and
\* discovery type and no CaDataRef.
C26_StaleCaDataDropped ==
    [][CheckDone
       => LET id  == dlast'.data[1].id
              txt == dlast'.data[1]
          IN Differs(foreign[id], txt, dlast'.type)
             => IF foreign[id].caRef /\ SecretDeleteFailed(Stores, id, dlast'.faults)
                THEN dlast'.err /\ foreign'[id] = foreign[id]
                ELSE /\ foreign[id].caRef => id \notin secrets'
                     /\ Refreshed(foreign'[id], txt, dlast'.type)]_vars

\* the secret of a cluster is deleted and its ForeignCluster still
\* references it and has the old data: the Update after the delete failed
C26_DanglingCaDataRef ==
    \E id \in ForeignIDs :
        /\ dlast.op = "check" /\ dlast.data[1].id = id
        /\ Called(dlast, "deleteSecret", id)
        /\ <<"update", id>> \in dlast.faults
        /\ foreign[id].caRef /\ id \notin secrets
        /\ foreign[id].url # dlast.data[1].url

\* a CheckUpdate with differing data, none of whose calls is made to fail,
\* stores the discovered data
C26_RetryStoresTheData ==
    [][(CheckDone /\ dlast'.faults = {}
          /\ Differs(foreign[dlast'.data[1].id], dlast'.data[1], dlast'.type))
       => Refreshed(foreign'[dlast'.data[1].id], dlast'.data[1], dlast'.type)]_vars

\* the step is a CheckUpdate for data that does not differ from the stored
\* ForeignCluster
CheckOfSameData ==
    /\ CheckDone
    /\ ~Differs(foreign[dlast'.data[1].id], dlast'.data[1], dlast'.type)

\* C27: a CheckUpdate whose discovered ApiUrl and Namespace equal the
\* stored ones, with a discovery type of no higher priority, issues no
\* call, changes nothing in the stores and returns the ForeignCluster
\* without an error; and the data of a CheckUpdate that returned without
\* an error does not differ from the ForeignCluster it left.
C27_CheckUpdateNoOpOnSameData ==
    [][/\ CheckOfSameData
          => /\ dlast'.calls = <<>>
             /\ <<foreign', secrets', advs'>> = <<foreign, secrets, advs>>
             /\ ~dlast'.err
             /\ dlast'.returned = <<dlast'.data[1].id>>
       /\ (CheckDone /\ ~dlast'.err)
          => ~Differs(foreign'[dlast'.data[1].id], dlast'.data[1], dlast'.type)]_vars

\* a CheckUpdate stored new data for a cluster; the same data was
\* discovered again and the second CheckUpdate issued no call
C27_Witness ==
    \E id \in ForeignIDs :
        /\ rounds = MaxRounds - 3
        /\ dlast.op = "check" /\ dlast.data[1].id = id
        /\ dlast.calls = <<>> /\ ~dlast.err
        /\ foreign[id].exists
        /\ foreign[id].url = dlast.data[1].url /\ foreign[id].url # "u1"

-----------------------------------------------------------------------------
(* Properties of liqoctl add *)

\* the step is a run of processAddCluster
AddDone == rounds' = rounds - 2 /\ alast'.op = "add"

\* C28: a run of processAddCluster with the ID of the local cluster
\* returns an error, issues no call on ForeignClusters and leaves every
\* ForeignCluster as it was.
C28_LocalClusterRejected ==
    [][(AddDone /\ alast'.args.id = LocalClusterID)
       => /\ alast'.err
          /\ clusters' = clusters
          /\ \A op \in {"list", "get", "create", "update"} : ~Issued(alast', op)]_vars

\* the local cluster was added with no call failing and ForeignClusters
\* stored: the run went up to the identity check and returned the error
C28_Witness ==
    /\ alast.op = "add"
    /\ alast.args.id = LocalClusterID
    /\ alast.faults = {}
    /\ Issued(alast, "getIdentity")
    /\ alast.err
    /\ LocalClusterID \in tokens
    /\ \E n \in AddNames : clusters[n].exists

\* the step is a run of enforceForeignCluster that returned no error
EnforceDone == AddDone /\ Issued(alast', "list") /\ ~alast'.err

\* the ForeignClusters stored, and those of a cluster: by the cluster ID
\* label or by Spec.ClusterIdentity.ClusterID
Existing(c) == {n \in AddNames : c[n].exists}
OfCluster(c, id) == {n \in Existing(c) : c[n].label = id \/ c[n].id = id}

\* the fields enforceForeignCluster leaves in a ForeignCluster that was
\* stored as old, or was not stored
Enforced(new, old, t) ==
    /\ new.exists
    /\ new.id = t.id /\ new.url = t.url /\ new.outgoing = "Yes"
    /\ new.name = (IF old.name = "" THEN t.name ELSE old.name)
    /\ new.incoming = (IF old.incoming = "" THEN "Auto" ELSE old.incoming)
    /\ new.insecure = (IF old.insecure = "nil" THEN "true" ELSE old.insecure)

\* a second run with the same arguments changes nothing
RunAgain(c, k, t, merge) ==
    LET res == EnforceResult(AddOutcome(c, k, <<>>), t, {}, merge) IN
    /\ ~res.err
    /\ res.o.clusters = c
    /\ ~Issued(res.o, "create") /\ ~Issued(res.o, "update")

\* C29: after a run of enforceForeignCluster that returns no error: when
\* a ForeignCluster of the given cluster ID was stored, no ForeignCluster
\* is created; exactly one ForeignCluster is written at most, it has the
\* given cluster ID and URL and OutgoingPeeringEnabled Yes, and its
\* ClusterName, IncomingPeeringEnabled and InsecureSkipTLSVerify are the
\* stored ones when set and the given name, Auto and true otherwise; and a
\* second run with the same arguments changes nothing.
C29_EnforceKeyedByClusterID ==
    [][EnforceDone
       => LET t == alast'.args IN
          /\ OfCluster(clusters, t.id) # {} => Existing(clusters') = Existing(clusters)
          /\ \E n \in AddNames :
                /\ Enforced(clusters'[n], clusters[n], t)
                /\ \A m \in AddNames \ {n} : clusters'[m] = clusters[m]
          /\ RunAgain(clusters', tokens', t, alast'.merge)]_vars

\* C29 with the ForeignCluster of a cluster ID taken to be the one that
\* carries the cluster ID label
C29_EnforceKeyedByLabel ==
    [][EnforceDone
       => LET t == alast'.args IN
          /\ ByID(clusters, t.id) # {} => Existing(clusters') = Existing(clusters)
          /\ \E n \in AddNames :
                /\ Enforced(clusters'[n], clusters[n], t)
                /\ \A m \in AddNames \ {n} : clusters'[m] = clusters[m]
          /\ RunAgain(clusters', tokens', t, alast'.merge)]_vars

\* after a run that returned no error the ForeignCluster written carries
\* the label of another cluster, and no ForeignCluster carries the label
\* of the cluster that was added
C29_WrittenToAnotherCluster ==
    /\ alast.op = "add" /\ ~alast.err /\ Issued(alast, "update")
    /\ ByID(clusters, alast.args.id) = {}
    /\ \E n \in AddNames :
          /\ clusters[n].exists
          /\ clusters[n].id = alast.args.id
          /\ clusters[n].label \in ForeignIDs \ {alast.args.id}

\* two ForeignClusters have the cluster ID of the cluster that was added
C29_TwoOfOneCluster ==
    /\ alast.op = "add" /\ ~alast.err
    /\ \E n \in AddNames, m \in AddNames :
          /\ n # m
          /\ clusters[n].exists /\ clusters[m].exists
          /\ clusters[n].id = alast.args.id /\ clusters[m].id = alast.args.id

====
